---- MODULE Spec2Model ----
(***************************************************************************)
(* Authentication / session lifecycle of Data Detective Academy:           *)
(* backend/app/auth.py, backend/app/routes/auth.py, backend/app/models.py. *)
(*                                                                         *)
(* The store (users, refresh_tokens, password_reset_tokens) is shared by   *)
(* concurrently served requests.  Handlers that read, decide and then      *)
(* write (register, logout, password-reset confirm) are split at the       *)
(* point between their reads and their commit, so two requests can         *)
(* interleave there; each request works in a slot of `reqs`.  Time is      *)
(* counted in ticks, TicksPerSecond to the second: stored datetimes keep   *)
(* sub-second precision, JWT time claims are whole seconds.                *)
(***************************************************************************)
EXTENDS Integers, Sequences, FiniteSets, TLC

(* ---------------------------- bounds ---------------------------------- *)
MaxUsers == 1
MaxRefresh == 1
MaxReset == 1
MaxInflight == 2
TicksPerSecond == 2
MaxSubTicks == 1
MaxAttempts == 2
MaxWorkers == 2

(* ----------------------- program constants ---------------------------- *)
ACCESS_TOKEN_EXPIRE_MINUTES == 30
REFRESH_TOKEN_EXPIRE_DAYS == 7
PASSWORD_RESET_TOKEN_EXPIRE_HOURS == 1
BCRYPT_MAX_BYTES == 72
PASSWORD_MIN_LENGTH == 8
PASSWORD_MAX_LENGTH == 100
CACHE_TTL == 5 * 60
LEADERBOARD_LIMIT == 100

Minutes(n) == n * 60 * TicksPerSecond
Hours(n) == n * 60 * 60 * TicksPerSecond
Days(n) == n * 24 * 60 * 60 * TicksPerSecond
Seconds(n) == n * TicksPerSecond

AccessLifetime == Minutes(ACCESS_TOKEN_EXPIRE_MINUTES)
RefreshLifetime == Days(REFRESH_TOKEN_EXPIRE_DAYS)
ResetLifetime == Hours(PASSWORD_RESET_TOKEN_EXPIRE_HOURS)

(* ------------------------------ inputs -------------------------------- *)
Emails == {"ann@x.io", "bob@x.io"}

(* A string is written run by run: <<Run("a", 72), Run("b", 1)>> is 72 times *)
(* "a" followed by one "b".  Adjacent runs have different characters.       *)
Run(c, n) == [c |-> c, n |-> n]
RECURSIVE StrLen(_)
StrLen(p) == IF p = <<>> THEN 0 ELSE Head(p).n + StrLen(Tail(p))
\* p[:k]
RECURSIVE Prefix(_, _)
Prefix(p, k) ==
    IF p = <<>> \/ k = 0 THEN <<>>
    ELSE IF Head(p).n <= k THEN <<Head(p)>> \o Prefix(Tail(p), k - Head(p).n)
    ELSE <<Run(Head(p).c, k)>>

PwShort == <<Run("s", PASSWORD_MIN_LENGTH)>>
Pw72 == <<Run("a", BCRYPT_MAX_BYTES)>>
Pw73 == <<Run("a", BCRYPT_MAX_BYTES), Run("b", 1)>>
Passwords == {PwShort, Pw72, Pw73}
NewPasswords == {PwShort, Pw73}

\* the registrations tried: UserCreate(email, password, role)
UserCreate(email, password, role) == [email |-> email, password |-> password, role |-> role]
RegisterInputs == {UserCreate("ann@x.io", Pw72, "student"),
                   UserCreate("ann@x.io", PwShort, "teacher"),
                   UserCreate("bob@x.io", Pw73, "teacher")}

\* the instants at which requests are served: the first MaxSubTicks ticks
\* from the start, and from one refresh-token lifetime after the start
Instants == {a + b : a \in {0, RefreshLifetime}, b \in 0..MaxSubTicks}

(* str(user_id) and int(sub): the decimal strings of the user ids *)
IdStr == <<"1", "2", "3", "4">>
Str(n) == IdStr[n]
IsIntStr(s) == \E n \in DOMAIN IdStr : IdStr[n] = s
ParseInt(s) == CHOOSE n \in DOMAIN IdStr : IdStr[n] = s

(* ------------------------------ tokens -------------------------------- *)
(* A token string.  kind "jwt": a token signed with SECRET_KEY, whose      *)
(* payload is the other fields ("" , 0 stand for an absent claim);         *)
(* kind "opaque": secrets.token_urlsafe, identified by jti; kind           *)
(* "garbage": any string that is neither.                                  *)
Token(kind, sub, user_id, role, type, exp, jti) ==
    [kind |-> kind, sub |-> sub, user_id |-> user_id, role |-> role,
     type |-> type, exp |-> exp, jti |-> jti]
NoToken == Token("none", "", 0, "", "", 0, 0)
Garbage == Token("garbage", "", 0, "", "", 0, 0)

(* jose encodes a datetime claim as whole seconds since the epoch *)
Timegm(t) == t \div TicksPerSecond

VARIABLES
    now,        \* the clock, in ticks
    users,      \* table users: id -> [email, role, password_hash, last_login],
                \* and `password`: the plaintext the hash was made from, and
                \* `old_password`: the plaintext before the last reset (<<>>
                \* if none); the store holds neither and no handler reads them
    refresh_tokens,        \* table refresh_tokens, in id order; `issued_to`
                \* is the email of the user who logged in, which the
                \* store does not hold
    password_reset_tokens, \* table password_reset_tokens, in id order
    held,       \* the access token issued last, as the client holds it
    reqs,       \* requests in flight: slot -> request
    last,       \* the most recently completed request and its response
    resetUses,  \* per reset token id: password changes committed through it
    progress,   \* table progress, in id order
    attempts,   \* table attempts, in id order
    returned,   \* the Progress row the last submission answered with
    cache,      \* leaderboard._cache of each server process
    weekly_cache,    \* reports._weekly_cache of each server process
    analytics_cache, \* analytics._analytics_cache of each server process
    board,      \* the last leaderboard response: the process that served it,
                \* its entries, and the number of Progress rows at that time
    recorded    \* per server process: the id of the last Progress row that a
                \* submission served by it inserted

cache_vars == <<cache, weekly_cache, analytics_cache, board, recorded>>
progress_vars == <<progress, attempts, returned,
                   cache, weekly_cache, analytics_cache, board, recorded>>
vars == <<now, users, refresh_tokens, password_reset_tokens,
          held, reqs, last, resetUses, progress, attempts, returned,
          cache, weekly_cache, analytics_cache, board, recorded>>

(* ------------------------- password hashing --------------------------- *)
(* bcrypt looks at the first 72 bytes of the secret only *)
Truncate(p) == Prefix(p, BCRYPT_MAX_BYTES)

hash_password(password) == [scheme |-> "bcrypt", digest |-> Truncate(password)]

verify_password(plain_password, hashed_password) ==
    hash_password(plain_password) = hashed_password

(* ------------------------------ JWT ----------------------------------- *)
create_access_token(sub, user_id, role, type, expires_delta, jti) ==
    Token("jwt", sub, user_id, role, type, Timegm(now + expires_delta), jti)

(* jwt.decode: signature, structure and exp; TRUE when it raises JWTError *)
JWTError(token) == token.kind # "jwt" \/ token.exp < Timegm(now)

(* --------------------------- store lookups ---------------------------- *)
UserIds == DOMAIN users
UsersByEmail(email) == {id \in UserIds : users[id].email = email}
\* select(User).where(User.email == email) ... .first()
FirstUserByEmail(email) ==
    CHOOSE id \in UsersByEmail(email) : \A o \in UsersByEmail(email) : id <= o

Max(S) == CHOOSE x \in S : \A y \in S : y <= x
\* the id the store gives an inserted user row
NextUserId == IF UserIds = {} THEN 1 ELSE Max(UserIds) + 1

RefreshIdx(token) ==
    {i \in DOMAIN refresh_tokens : refresh_tokens[i].token = token}
ResetIdx(token) ==
    {i \in DOMAIN password_reset_tokens : password_reset_tokens[i].token = token}
First(S) == CHOOSE i \in S : \A j \in S : i <= j

(* --------------------------- responses -------------------------------- *)
(* A completed request: its operation and inputs (tok, email, pw), and the  *)
(* response: status, detail/message, WWW-Authenticate header, the user it  *)
(* names (uid) and the tokens it carries.                                  *)
Response(op, status, detail, hdr, tok, email, pw, uid, access, refresh, reset) ==
    [op |-> op, status |-> status, detail |-> detail,
     hdr |-> hdr, tok |-> tok, email |-> email, pw |-> pw, uid |-> uid,
     access |-> access, refresh |-> refresh, reset |-> reset]
HasToken(t) == t.kind # "none"

Idle == [op |-> "idle", email |-> "", pw |-> <<>>, role |-> "", tok |-> NoToken,
         uid |-> 0, idx |-> 0, unit_id |-> 0, challenge_id |-> 0,
         hints_used |-> 0, query |-> <<>>, worker |-> 0]
\* the server processes; each has its own module-level caches
Workers == 1..MaxWorkers
\* None is <<>> and a value v is <<v>>
None == <<>>
Some(v) == <<v>>
\* {"data": None, "timestamp": None}
EmptyCache == [data |-> None, timestamp |-> None]
\* no Progress row
NoProgress == [id |-> 0]
Slots == 1..MaxInflight
\* a new request is served in the first free slot
Free(s) == reqs[s] = Idle /\ \A o \in Slots : o < s => reqs[o] # Idle

INTERNAL_ERROR == "An internal server error occurred. We've been notified and will investigate."

Init ==
    /\ now = 0
    /\ users = <<>>
    /\ refresh_tokens = <<>>
    /\ password_reset_tokens = <<>>
    /\ held = NoToken
    /\ reqs = [s \in Slots |-> Idle]
    /\ last = [op |-> "none", status |-> 0, detail |-> "", hdr |-> "",
               tok |-> NoToken, email |-> "", pw |-> <<>>, uid |-> 0,
               access |-> NoToken, refresh |-> NoToken, reset |-> NoToken]
    /\ resetUses = [i \in 1..MaxReset + 1 |-> 0]
    /\ progress = <<>>
    /\ attempts = <<>>
    /\ returned = NoProgress
    /\ cache = [w \in Workers |-> EmptyCache]
    /\ weekly_cache = [w \in Workers |-> EmptyCache]
    /\ analytics_cache = [w \in Workers |-> None]
    /\ board = [worker |-> 0, entries |-> <<>>, rows |-> 0]
    /\ recorded = [w \in Workers |-> 0]
(* ============================ POST /auth/register ===================== *)
\* the emails that the registrations in flight in r are about to insert
Registering(r) == {r[s].email : s \in {o \in Slots : r[o].op = "register"}}

\* the duplicate check: select(User).where(User.email == ...).first()
RegisterCheck(s, email, password, role) ==
    /\ Free(s)
    /\ StrLen(password) >= PASSWORD_MIN_LENGTH
    /\ StrLen(password) <= PASSWORD_MAX_LENGTH
    /\ IF UsersByEmail(email) # {}
       THEN /\ last' = Response("register", 400, "Email already registered", "",
                                NoToken, email, password, 0, NoToken, NoToken, NoToken)
            /\ UNCHANGED reqs
       ELSE /\ reqs' = [reqs EXCEPT ![s] = [Idle EXCEPT !.op = "register",
                            !.email = email, !.pw = password, !.role = role]]
            /\ UNCHANGED last
    /\ UNCHANGED <<now, users, refresh_tokens, password_reset_tokens,
                   held, resetUses>>
    /\ UNCHANGED progress_vars

\* an insert into a users table without the UNIQUE constraint on email
RegisterInsert_unconstrained(s) ==
    /\ reqs[s].op = "register"
    /\ LET r == reqs[s] IN
       /\ users' = users @@ (NextUserId :>
                     [email |-> r.email, role |-> r.role,
                      password_hash |-> hash_password(r.pw), last_login |-> -1,
                      password |-> r.pw, old_password |-> <<>>])
       /\ last' = Response("register", 201, "", "",
                           NoToken, r.email, r.pw, NextUserId, NoToken, NoToken, NoToken)
    /\ reqs' = [reqs EXCEPT ![s] = Idle]
    /\ UNCHANGED <<now, refresh_tokens, password_reset_tokens,
                   held, resetUses>>
    /\ UNCHANGED progress_vars

\* session.add(new_user); session.commit(): users.email is UNIQUE, and the
\* IntegrityError of a violated constraint is not caught by the handler
RegisterInsert(s) ==
    /\ reqs[s].op = "register"
    /\ LET r == reqs[s] IN
       IF UsersByEmail(r.email) # {}
       THEN /\ last' = Response("register", 500, INTERNAL_ERROR, "",
                                NoToken, r.email, r.pw, 0, NoToken, NoToken, NoToken)
            /\ UNCHANGED users
       ELSE /\ users' = users @@ (NextUserId :>
                          [email |-> r.email, role |-> r.role,
                           password_hash |-> hash_password(r.pw), last_login |-> -1,
                           password |-> r.pw, old_password |-> <<>>])
            /\ last' = Response("register", 201, "", "",
                                NoToken, r.email, r.pw, NextUserId, NoToken, NoToken, NoToken)
    /\ reqs' = [reqs EXCEPT ![s] = Idle]
    /\ UNCHANGED <<now, refresh_tokens, password_reset_tokens,
                   held, resetUses>>
    /\ UNCHANGED progress_vars

(* ============================ POST /auth/login ======================== *)
create_refresh_token(user_id) ==
    [token |-> create_access_token(Str(user_id), 0, "", "refresh", RefreshLifetime,
                                   Len(refresh_tokens) + 1),
     user_id |-> user_id,
     expires_at |-> now + RefreshLifetime,
     revoked |-> FALSE,
     issued_to |-> users[user_id].email]

\* a failed login that tells an unknown email from a wrong password
login_error_leaky(user_found) ==
    [status |-> IF user_found THEN 401 ELSE 404,
     detail |-> IF user_found THEN "Incorrect password" ELSE "User not found",
     hdr |-> "Bearer"]

\* the HTTPException of a failed login; user_found tells which test failed
login_error(user_found) ==
    [status |-> 401, detail |-> "Incorrect email or password", hdr |-> "Bearer"]

login(email, password) ==
    /\ IF \/ UsersByEmail(email) = {}
          \/ ~verify_password(password, users[FirstUserByEmail(email)].password_hash)
       THEN /\ LET e == login_error(UsersByEmail(email) # {}) IN
               last' = Response("login", e.status, e.detail, e.hdr,
                                NoToken, email, password, 0, NoToken, NoToken, NoToken)
            /\ UNCHANGED <<users, refresh_tokens, held>>
       ELSE LET id == FirstUserByEmail(email)
                access_token == create_access_token(users[id].email, id, users[id].role,
                                    "", AccessLifetime, 0)
                refresh_token == create_refresh_token(id)
            IN  /\ users' = [users EXCEPT ![id].last_login = now]
                /\ refresh_tokens' = Append(refresh_tokens, refresh_token)
                /\ held' = access_token
                /\ last' = Response("login", 200, "", "", NoToken, email, password, id,
                                    access_token, refresh_token.token, NoToken)
    /\ UNCHANGED <<now, password_reset_tokens, reqs, resetUses>>
    /\ UNCHANGED progress_vars

(* ============================ POST /auth/refresh ====================== *)
Verdict(ok, detail, cause, uid) ==
    [ok |-> ok, detail |-> detail, cause |-> cause, uid |-> uid]

\* verify_refresh_token without its revoked check
verify_refresh_token_revoked_unchecked(token) ==
    IF JWTError(token) \/ ~IsIntStr(token.sub) \/ token.type # "refresh"
    THEN Verdict(FALSE, "Invalid refresh token", "jwt", 0)
    ELSE LET user_id == ParseInt(token.sub)
             found == {i \in RefreshIdx(token) : refresh_tokens[i].user_id = user_id}
         IN  IF found = {}
             THEN Verdict(FALSE, "Invalid refresh token", "not found", 0)
             ELSE LET db_token == refresh_tokens[First(found)] IN
                  IF now > db_token.expires_at
                  THEN Verdict(FALSE, "Token has expired", "expired", 0)
                  ELSE IF user_id \notin UserIds
                  THEN Verdict(FALSE, "Invalid refresh token", "user missing", 0)
                  ELSE Verdict(TRUE, "", "", user_id)

\* verify_refresh_token telling the caller that the user is gone
verify_refresh_token_user_message(token) ==
    IF JWTError(token) \/ ~IsIntStr(token.sub) \/ token.type # "refresh"
    THEN Verdict(FALSE, "Invalid refresh token", "jwt", 0)
    ELSE LET user_id == ParseInt(token.sub)
             found == {i \in RefreshIdx(token) : refresh_tokens[i].user_id = user_id}
         IN  IF found = {}
             THEN Verdict(FALSE, "Invalid refresh token", "not found", 0)
             ELSE LET db_token == refresh_tokens[First(found)] IN
                  IF db_token.revoked
                  THEN Verdict(FALSE, "Token has been revoked", "revoked", 0)
                  ELSE IF now > db_token.expires_at
                  THEN Verdict(FALSE, "Token has expired", "expired", 0)
                  ELSE IF user_id \notin UserIds
                  THEN Verdict(FALSE, "User not found", "user missing", 0)
                  ELSE Verdict(TRUE, "", "", user_id)

\* verify_refresh_token looking at the expiration before the revoked flag
verify_refresh_token_expiry_first(token) ==
    IF JWTError(token) \/ ~IsIntStr(token.sub) \/ token.type # "refresh"
    THEN Verdict(FALSE, "Invalid refresh token", "jwt", 0)
    ELSE LET user_id == ParseInt(token.sub)
             found == {i \in RefreshIdx(token) : refresh_tokens[i].user_id = user_id}
         IN  IF found = {}
             THEN Verdict(FALSE, "Invalid refresh token", "not found", 0)
             ELSE LET db_token == refresh_tokens[First(found)] IN
                  IF now > db_token.expires_at
                  THEN Verdict(FALSE, "Token has expired", "expired", 0)
                  ELSE IF db_token.revoked
                  THEN Verdict(FALSE, "Token has been revoked", "revoked", 0)
                  ELSE IF user_id \notin UserIds
                  THEN Verdict(FALSE, "Invalid refresh token", "user missing", 0)
                  ELSE Verdict(TRUE, "", "", user_id)

\* verify_refresh_token without the check of the stored expiration
verify_refresh_token_expiry_unchecked(token) ==
    IF JWTError(token) \/ ~IsIntStr(token.sub) \/ token.type # "refresh"
    THEN Verdict(FALSE, "Invalid refresh token", "jwt", 0)
    ELSE LET user_id == ParseInt(token.sub)
             found == {i \in RefreshIdx(token) : refresh_tokens[i].user_id = user_id}
         IN  IF found = {}
             THEN Verdict(FALSE, "Invalid refresh token", "not found", 0)
             ELSE LET db_token == refresh_tokens[First(found)] IN
                  IF db_token.revoked
                  THEN Verdict(FALSE, "Token has been revoked", "revoked", 0)
                  ELSE IF user_id \notin UserIds
                  THEN Verdict(FALSE, "Invalid refresh token", "user missing", 0)
                  ELSE Verdict(TRUE, "", "", user_id)

verify_refresh_token(token) ==
    IF JWTError(token) \/ ~IsIntStr(token.sub) \/ token.type # "refresh"
    THEN Verdict(FALSE, "Invalid refresh token", "jwt", 0)
    ELSE LET user_id == ParseInt(token.sub)
             found == {i \in RefreshIdx(token) : refresh_tokens[i].user_id = user_id}
         IN  IF found = {}
             THEN Verdict(FALSE, "Invalid refresh token", "not found", 0)
             ELSE LET db_token == refresh_tokens[First(found)] IN
                  IF db_token.revoked
                  THEN Verdict(FALSE, "Token has been revoked", "revoked", 0)
                  ELSE IF now > db_token.expires_at
                  THEN Verdict(FALSE, "Token has expired", "expired", 0)
                  ELSE IF user_id \notin UserIds
                  THEN Verdict(FALSE, "Invalid refresh token", "user missing", 0)
                  ELSE Verdict(TRUE, "", "", user_id)

\* a validly signed refresh JWT that was never stored
UnstoredRefreshJWT == Token("jwt", Str(1), 0, "", "refresh", Timegm(RefreshLifetime), 0)

StoredRefresh == {refresh_tokens[i].token : i \in DOMAIN refresh_tokens}
StoredReset == {password_reset_tokens[i].token : i \in DOMAIN password_reset_tokens}

\* a refresh that rotates: the token it was given is revoked on success
refresh_access_token_rotating(token) ==
    /\ LET v == verify_refresh_token(token) IN
       IF ~v.ok
       THEN /\ last' = Response("refresh", 401, v.detail, "", token, "", <<>>, 0,
                                NoToken, NoToken, NoToken)
            /\ UNCHANGED <<held, refresh_tokens>>
       ELSE LET access_token == create_access_token(users[v.uid].email, v.uid,
                                    users[v.uid].role, "", AccessLifetime, 0)
            IN  /\ held' = access_token
                /\ refresh_tokens' = [refresh_tokens EXCEPT
                                         ![First(RefreshIdx(token))].revoked = TRUE]
                /\ last' = Response("refresh", 200, "", "", token, "", <<>>, v.uid,
                                    access_token, NoToken, NoToken)
    /\ UNCHANGED <<now, users, password_reset_tokens, reqs, resetUses>>
    /\ UNCHANGED progress_vars

refresh_access_token(token) ==
    /\ LET v == verify_refresh_token(token) IN
       IF ~v.ok
       THEN /\ last' = Response("refresh", 401, v.detail, "", token, "", <<>>, 0,
                                NoToken, NoToken, NoToken)
            /\ UNCHANGED held
       ELSE LET access_token == create_access_token(users[v.uid].email, v.uid,
                                    users[v.uid].role, "", AccessLifetime, 0)
            IN  /\ held' = access_token
                /\ last' = Response("refresh", 200, "", "", token, "", <<>>, v.uid,
                                    access_token, NoToken, NoToken)
    /\ UNCHANGED <<now, users, refresh_tokens, password_reset_tokens,
                   reqs, resetUses>>
    /\ UNCHANGED progress_vars

(* ============================ POST /auth/logout ======================= *)
\* revoke_refresh_token without its already-revoked check
revoke_refresh_token_check_found_only(token) ==
    IF RefreshIdx(token) = {} THEN "not found" ELSE "ok"

\* the checks of revoke_refresh_token
revoke_refresh_token_check(token) ==
    IF RefreshIdx(token) = {} THEN "not found"
    ELSE IF refresh_tokens[First(RefreshIdx(token))].revoked THEN "revoked"
    ELSE "ok"

\* revoke_refresh_token up to its checks: the lookup by token string
LogoutLookup(s, token) ==
    /\ Free(s)
    /\ IF revoke_refresh_token_check(token) # "ok"
       THEN /\ last' = Response("logout", 401, "Invalid refresh token", "", token,
                                "", <<>>, 0, NoToken, NoToken, NoToken)
            /\ UNCHANGED reqs
       ELSE /\ reqs' = [reqs EXCEPT ![s] = [Idle EXCEPT !.op = "logout",
                            !.tok = token, !.idx = First(RefreshIdx(token))]]
            /\ UNCHANGED last
    /\ UNCHANGED <<now, users, refresh_tokens, password_reset_tokens,
                   held, resetUses>>
    /\ UNCHANGED progress_vars

\* what logout() does with the value revoke_refresh_token returned: it
\* binds the returned True to `user` and reads user.email for the log line
LogoutResponse(revoked_result) ==
    IF revoked_result
    THEN [status |-> 500, detail |-> INTERNAL_ERROR]
    ELSE [status |-> 200, detail |-> "Successfully logged out"]

\* a logout that ends every session of the token's user
LogoutCommit_all_sessions(s) ==
    /\ reqs[s].op = "logout"
    /\ refresh_tokens' =
           [i \in DOMAIN refresh_tokens |->
               IF refresh_tokens[i].user_id = refresh_tokens[reqs[s].idx].user_id
               THEN [refresh_tokens[i] EXCEPT !.revoked = TRUE]
               ELSE refresh_tokens[i]]
    /\ LET r == LogoutResponse(TRUE) IN
       last' = Response("logout", r.status, r.detail, "", reqs[s].tok,
                        "", <<>>, 0, NoToken, NoToken, NoToken)
    /\ reqs' = [reqs EXCEPT ![s] = Idle]
    /\ UNCHANGED <<now, users, password_reset_tokens, held, resetUses>>
    /\ UNCHANGED progress_vars

\* a logout that flips the flag instead of setting it
LogoutCommit_toggling(s) ==
    /\ reqs[s].op = "logout"
    /\ refresh_tokens' = [refresh_tokens EXCEPT ![reqs[s].idx].revoked = ~@]
    /\ LET r == LogoutResponse(TRUE) IN
       last' = Response("logout", r.status, r.detail, "", reqs[s].tok,
                        "", <<>>, 0, NoToken, NoToken, NoToken)
    /\ reqs' = [reqs EXCEPT ![s] = Idle]
    /\ UNCHANGED <<now, users, password_reset_tokens, held, resetUses>>
    /\ UNCHANGED progress_vars

\* db_token.revoked = True; db.commit(); return True -- and the rest of logout()
LogoutCommit(s) ==
    /\ reqs[s].op = "logout"
    /\ refresh_tokens' = [refresh_tokens EXCEPT ![reqs[s].idx].revoked = TRUE]
    /\ LET r == LogoutResponse(TRUE) IN
       last' = Response("logout", r.status, r.detail, "", reqs[s].tok,
                        "", <<>>, 0, NoToken, NoToken, NoToken)
    /\ reqs' = [reqs EXCEPT ![s] = Idle]
    /\ UNCHANGED <<now, users, password_reset_tokens, held, resetUses>>
    /\ UNCHANGED progress_vars

(* ==================== POST /auth/password-reset-request =============== *)
RESET_REQUEST_MESSAGE == "If this email exists, a reset token has been sent"

create_password_reset_token(user_id) ==
    [token |-> Token("opaque", "", 0, "", "", 0, Len(password_reset_tokens) + 1),
     user_id |-> user_id,
     expires_at |-> now + ResetLifetime,
     used |-> FALSE]

\* a reset request that stores a record for an email nobody registered
request_password_reset_recording(email) ==
    /\ LET reset_token == create_password_reset_token(
                              IF UsersByEmail(email) = {} THEN 0
                              ELSE FirstUserByEmail(email)) IN
       /\ password_reset_tokens' = Append(password_reset_tokens, reset_token)
       /\ last' = Response("reset request", 200, RESET_REQUEST_MESSAGE, "", NoToken,
                           email, <<>>, 0, NoToken, NoToken,
                           IF UsersByEmail(email) = {} THEN NoToken
                           ELSE reset_token.token)
    /\ UNCHANGED <<now, users, refresh_tokens, held, reqs, resetUses>>
    /\ UNCHANGED progress_vars

request_password_reset(email) ==
    /\ IF UsersByEmail(email) = {}
       THEN /\ last' = Response("reset request", 200, RESET_REQUEST_MESSAGE, "", NoToken,
                                email, <<>>, 0, NoToken, NoToken, NoToken)
            /\ UNCHANGED password_reset_tokens
       ELSE LET reset_token == create_password_reset_token(FirstUserByEmail(email)) IN
            /\ password_reset_tokens' = Append(password_reset_tokens, reset_token)
            /\ last' = Response("reset request", 200, RESET_REQUEST_MESSAGE, "", NoToken,
                                email, <<>>, 0, NoToken, NoToken, reset_token.token)
    /\ UNCHANGED <<now, users, refresh_tokens, held, reqs, resetUses>>
    /\ UNCHANGED progress_vars

(* ==================== POST /auth/password-reset-confirm =============== *)
\* verify_and_use_reset_token, steps 1-4: the reads and the checks
\* the checks without step 2, the used flag
ResetTokenValid_used_unchecked(token) ==
    /\ ResetIdx(token) # {}
    /\ LET db_token == password_reset_tokens[First(ResetIdx(token))] IN
       /\ ~(now > db_token.expires_at)
       /\ db_token.user_id \in UserIds

ResetTokenValid(token) ==
    /\ ResetIdx(token) # {}
    /\ LET db_token == password_reset_tokens[First(ResetIdx(token))] IN
       /\ ~db_token.used
       /\ ~(now > db_token.expires_at)
       /\ db_token.user_id \in UserIds

\* the step of verify_and_use_reset_token at which the token fails:
\* 1 not found, 2 already used, 3 expired, 4 user not found; 0 when none does
ResetFailedStep(token) ==
    IF ResetIdx(token) = {} THEN 1
    ELSE LET db_token == password_reset_tokens[First(ResetIdx(token))] IN
         IF db_token.used THEN 2
         ELSE IF now > db_token.expires_at THEN 3
         ELSE IF db_token.user_id \notin UserIds THEN 4
         ELSE 0

\* an exception that names the step that failed
invalid_token_exception_telling(step) ==
    [status |-> 401,
     detail |-> IF step = 2 THEN "Reset token already used"
                ELSE IF step = 3 THEN "Reset token expired"
                ELSE "Invalid reset token"]

\* invalid_token_exception: the one exception every failing step raises
invalid_token_exception(step) ==
    [status |-> 401, detail |-> "Invalid or expired reset token"]

\* a confirm that spends the token it refuses
ConfirmCheck_burning(s, token, new_password) ==
    /\ Free(s)
    /\ StrLen(new_password) >= PASSWORD_MIN_LENGTH
    /\ StrLen(new_password) <= PASSWORD_MAX_LENGTH
    /\ IF ~ResetTokenValid(token)
       THEN /\ LET e == invalid_token_exception(ResetFailedStep(token)) IN
               last' = Response("confirm", e.status, e.detail, "",
                                token, "", new_password, 0, NoToken, NoToken, NoToken)
            /\ password_reset_tokens' =
                   [i \in DOMAIN password_reset_tokens |->
                       IF i \in ResetIdx(token)
                       THEN [password_reset_tokens[i] EXCEPT !.used = TRUE]
                       ELSE password_reset_tokens[i]]
            /\ UNCHANGED reqs
       ELSE /\ reqs' = [reqs EXCEPT ![s] = [Idle EXCEPT !.op = "confirm",
                            !.tok = token, !.pw = new_password,
                            !.idx = First(ResetIdx(token)),
                            !.uid = password_reset_tokens[First(ResetIdx(token))].user_id]]
            /\ UNCHANGED <<last, password_reset_tokens>>
    /\ UNCHANGED <<now, users, refresh_tokens, held, resetUses>>
    /\ UNCHANGED progress_vars

ConfirmCheck(s, token, new_password) ==
    /\ Free(s)
    /\ StrLen(new_password) >= PASSWORD_MIN_LENGTH
    /\ StrLen(new_password) <= PASSWORD_MAX_LENGTH
    /\ IF ~ResetTokenValid(token)
       THEN /\ LET e == invalid_token_exception(ResetFailedStep(token)) IN
               last' = Response("confirm", e.status, e.detail, "",
                                token, "", new_password, 0, NoToken, NoToken, NoToken)
            /\ UNCHANGED reqs
       ELSE /\ reqs' = [reqs EXCEPT ![s] = [Idle EXCEPT !.op = "confirm",
                            !.tok = token, !.pw = new_password,
                            !.idx = First(ResetIdx(token)),
                            !.uid = password_reset_tokens[First(ResetIdx(token))].user_id]]
            /\ UNCHANGED last
    /\ UNCHANGED <<now, users, refresh_tokens, password_reset_tokens,
                   held, resetUses>>
    /\ UNCHANGED progress_vars

\* step 5: user.password_hash = hash_password(new_password), counted in
\* resetUses as a password change made through the token
UpdatePassword(r) ==
    [users |-> [users EXCEPT ![r.uid].password_hash = hash_password(r.pw),
                             ![r.uid].password = r.pw,
                             ![r.uid].old_password = users[r.uid].password],
     resetUses |-> [resetUses EXCEPT ![r.idx] = @ + 1]]

\* step 6 left out
MarkUsed_skipped(r) == password_reset_tokens

\* step 6 spending every token of the user
MarkUsed_all_of_user(r) ==
    [i \in DOMAIN password_reset_tokens |->
        IF password_reset_tokens[i].user_id = r.uid
        THEN [password_reset_tokens[i] EXCEPT !.used = TRUE]
        ELSE password_reset_tokens[i]]

\* step 6: db_token.used = True
MarkUsed(r) == [password_reset_tokens EXCEPT ![r.idx].used = TRUE]

\* step 7: both updates are flushed in the one db.commit(); an UPDATE of a
\* user row that is gone fails the flush and the transaction is rolled back

\* a confirm that also ends the sessions of the user
ConfirmCommit_ending_sessions(s) ==
    /\ reqs[s].op = "confirm"
    /\ LET r == reqs[s] IN
       IF r.uid \notin UserIds
       THEN /\ last' = Response("confirm", 500, INTERNAL_ERROR, "", r.tok, "", r.pw,
                                0, NoToken, NoToken, NoToken)
            /\ UNCHANGED <<users, password_reset_tokens, resetUses, refresh_tokens>>
       ELSE /\ users' = UpdatePassword(r).users
            /\ resetUses' = UpdatePassword(r).resetUses
            /\ password_reset_tokens' = MarkUsed(r)
            /\ refresh_tokens' =
                   [i \in DOMAIN refresh_tokens |->
                       IF refresh_tokens[i].user_id = r.uid
                       THEN [refresh_tokens[i] EXCEPT !.revoked = TRUE]
                       ELSE refresh_tokens[i]]
            /\ last' = Response("confirm", 200, "Password has been reset successfully",
                                "", r.tok, "", r.pw, r.uid, NoToken, NoToken, NoToken)
    /\ reqs' = [reqs EXCEPT ![s] = Idle]
    /\ UNCHANGED <<now, held>>
    /\ UNCHANGED progress_vars

ConfirmCommit(s) ==
    /\ reqs[s].op = "confirm"
    /\ LET r == reqs[s] IN
       IF r.uid \notin UserIds
       THEN /\ last' = Response("confirm", 500, INTERNAL_ERROR, "", r.tok, "", r.pw,
                                0, NoToken, NoToken, NoToken)
            /\ UNCHANGED <<users, password_reset_tokens, resetUses>>
       ELSE /\ users' = UpdatePassword(r).users
            /\ resetUses' = UpdatePassword(r).resetUses
            /\ password_reset_tokens' = MarkUsed(r)
            /\ last' = Response("confirm", 200, "Password has been reset successfully",
                                "", r.tok, "", r.pw, r.uid, NoToken, NoToken, NoToken)
    /\ reqs' = [reqs EXCEPT ![s] = Idle]
    /\ UNCHANGED <<now, refresh_tokens, held>>
    /\ UNCHANGED progress_vars

(* ================= protected endpoints: GET /users/me ================= *)
\* get_current_user accepting a token only while its user holds a refresh
\* token that is not revoked
get_current_user_session_bound(token) ==
    IF JWTError(token) THEN 0
    ELSE IF token.sub = "" \/ token.user_id = 0 THEN 0
    ELSE IF token.user_id \notin UserIds THEN 0
    ELSE IF \A i \in DOMAIN refresh_tokens :
                refresh_tokens[i].user_id = token.user_id => refresh_tokens[i].revoked
         THEN 0
    ELSE token.user_id

\* get_current_user falling back on the sub claim when user_id is absent
get_current_user_any_kind(token) ==
    IF JWTError(token) THEN 0
    ELSE IF token.sub = "" THEN 0
    ELSE IF token.user_id = 0
         THEN IF IsIntStr(token.sub) /\ ParseInt(token.sub) \in UserIds
              THEN ParseInt(token.sub) ELSE 0
    ELSE IF token.user_id \notin UserIds THEN 0
    ELSE token.user_id

\* 0 when credentials_exception is raised, else the id of the user returned
get_current_user(token) ==
    IF JWTError(token) THEN 0
    ELSE IF token.sub = "" \/ token.user_id = 0 THEN 0
    ELSE IF token.user_id \notin UserIds THEN 0
    ELSE token.user_id

\* OAuth2PasswordBearer(tokenUrl=...): FALSE when the request carries no
\* bearer token, and the scheme itself answers 401 "Not authenticated"
oauth2_scheme(token) == HasToken(token)

\* a protected endpoint that tells an expired token from the other failures
read_current_user_expiry_told(token) ==
    /\ IF ~oauth2_scheme(token)
       THEN last' = Response("me", 401, "Not authenticated", "Bearer",
                             token, "", <<>>, 0, NoToken, NoToken, NoToken)
       ELSE IF get_current_user(token) = 0
       THEN last' = Response("me", 401,
                             IF token.kind = "jwt" /\ token.exp < Timegm(now)
                             THEN "Token has expired"
                             ELSE "Could not validate credentials", "Bearer",
                             token, "", <<>>, 0, NoToken, NoToken, NoToken)
       ELSE last' = Response("me", 200, "", "", token,
                             users[get_current_user(token)].email, <<>>,
                             get_current_user(token), NoToken, NoToken, NoToken)
    /\ UNCHANGED <<now, users, refresh_tokens, password_reset_tokens,
                   held, reqs, resetUses>>
    /\ UNCHANGED progress_vars

read_current_user(token) ==
    /\ IF ~oauth2_scheme(token)
       THEN last' = Response("me", 401, "Not authenticated", "Bearer",
                             token, "", <<>>, 0, NoToken, NoToken, NoToken)
       ELSE IF get_current_user(token) = 0
       THEN last' = Response("me", 401, "Could not validate credentials", "Bearer",
                             token, "", <<>>, 0, NoToken, NoToken, NoToken)
       ELSE last' = Response("me", 200, "", "", token,
                             users[get_current_user(token)].email, <<>>,
                             get_current_user(token), NoToken, NoToken, NoToken)
    /\ UNCHANGED <<now, users, refresh_tokens, password_reset_tokens,
                   held, reqs, resetUses>>
    /\ UNCHANGED progress_vars

(* ====================== POST /progress/submit ========================= *)
(* A query is written token by token: words, " " for whitespace and        *)
(* "/*c*/" for a comment.                                                  *)
SampleQuery == <<"SELECT", " ", "*", " ", "FROM", " ", "users">>
SpacedQuery == <<" ", "select", " ", " ", "*", " ", "/*c*/", "from", " ", "users", " ">>
OtherQuery == <<"SELECT", " ", "name", " ", "FROM", " ", "users">>
Queries == {SampleQuery, SpacedQuery, OtherQuery}

\* CHALLENGES: (unit_id, challenge_id) -> definition
CHALLENGES ==
    (<<1, 1>> :> [points |-> 100, sample_solution |-> SampleQuery]) @@
    (<<1, 2>> :> [points |-> 150, sample_solution |-> OtherQuery])
get_challenge(unit_id, challenge_id) == CHALLENGES[<<unit_id, challenge_id>>]
challenge_exists(unit_id, challenge_id) == <<unit_id, challenge_id>> \in DOMAIN CHALLENGES

\* str.lower() on the words in use
Lower(w) ==
    CASE w = "SELECT" -> "select"
      [] w = "FROM" -> "from"
      [] OTHER -> w
IsSpace(w) == w = " "
RECURSIVE LStrip(_)
LStrip(q) == IF q # <<>> /\ IsSpace(Head(q)) THEN LStrip(Tail(q)) ELSE q
RECURSIVE RStrip(_)
RStrip(q) == IF q # <<>> /\ IsSpace(q[Len(q)]) THEN RStrip(SubSeq(q, 1, Len(q) - 1)) ELSE q
\* re.sub(r"\s+", " ", query)
RECURSIVE Collapse(_)
Collapse(q) ==
    IF Len(q) < 2 THEN q
    ELSE IF IsSpace(q[1]) /\ IsSpace(q[2]) THEN Collapse(Tail(q))
    ELSE <<Head(q)>> \o Collapse(Tail(q))
normalize_query(query) ==
    LET lowered == [i \in DOMAIN query |-> Lower(query[i])]
        uncommented == SelectSeq(lowered, LAMBDA w : w # "/*c*/")
    IN  Collapse(RStrip(LStrip(uncommented)))
validate_query(student_query, expected_query) ==
    normalize_query(student_query) = normalize_query(expected_query)

\* a column left at its default None
NULL == 0
Progress(id, user_id, unit_id, challenge_id, points_earned, hints_used, query) ==
    [id |-> id, user_id |-> user_id, unit_id |-> unit_id, challenge_id |-> challenge_id,
     custom_challenge_id |-> NULL, points_earned |-> points_earned,
     hints_used |-> hints_used, query |-> query, completed_at |-> now]

\* select(Progress).where(user_id ==, unit_id ==, challenge_id ==)
ExistingProgress(user_id, unit_id, challenge_id) ==
    {i \in DOMAIN progress : /\ progress[i].user_id = user_id
                             /\ progress[i].unit_id = unit_id
                             /\ progress[i].challenge_id = challenge_id}

\* UniqueConstraint("user_id", "unit_id", "challenge_id", "custom_challenge_id"):
\* TRUE when the store accepts the row.  Two rows conflict when they are
\* equal in all four columns, and a NULL is equal to nothing, itself included
unique_user_challenge(row) ==
    \A i \in DOMAIN progress :
        \/ progress[i].user_id # row.user_id
        \/ progress[i].unit_id # row.unit_id \/ row.unit_id = NULL
        \/ progress[i].challenge_id # row.challenge_id \/ row.challenge_id = NULL
        \/ progress[i].custom_challenge_id # row.custom_challenge_id
        \/ row.custom_challenge_id = NULL

\* require_student: the role check of the student-only endpoints
require_student(user_id) == users[user_id].role = "student"

Attempt(user_id, unit_id, challenge_id, query, is_correct) ==
    [user_id |-> user_id, unit_id |-> unit_id, challenge_id |-> challenge_id,
     query |-> query, is_correct |-> is_correct]

SubmitAnswer(status, detail, token, uid) ==
    Response("submit", status, detail, "", token, "", <<>>, uid, NoToken, NoToken, NoToken)

\* submit_challenge for a hardcoded challenge, steps 1-5: the dependencies,
\* the Attempt row and its commit, the lookup of an existing Progress row
\* the handlers that are coroutines without a suspension point run one at
\* a time in a server process: TRUE when process w is in none of them
Runnable(w) == \A s \in Slots : reqs[s].op = "submit" => reqs[s].worker # w

SubmitCheck(s, w, token, unit_id, challenge_id, query, hints_used) ==
    /\ Free(s)
    /\ Runnable(w)
    /\ IF ~oauth2_scheme(token)
       THEN /\ last' = [SubmitAnswer(401, "Not authenticated", token, 0) EXCEPT !.hdr = "Bearer"]
            /\ UNCHANGED <<attempts, reqs, returned>>
       ELSE IF get_current_user(token) = 0
       THEN /\ last' = [SubmitAnswer(401, "Could not validate credentials", token, 0)
                           EXCEPT !.hdr = "Bearer"]
            /\ UNCHANGED <<attempts, reqs, returned>>
       ELSE IF ~require_student(get_current_user(token))
       THEN /\ last' = SubmitAnswer(403, "", token, get_current_user(token))
            /\ UNCHANGED <<attempts, reqs, returned>>
       ELSE IF ~challenge_exists(unit_id, challenge_id)
       THEN /\ last' = SubmitAnswer(404, "Challenge not found", token, get_current_user(token))
            /\ UNCHANGED <<attempts, reqs, returned>>
       ELSE LET user_id == get_current_user(token)
                is_correct == validate_query(query,
                                  get_challenge(unit_id, challenge_id).sample_solution)
                existing == ExistingProgress(user_id, unit_id, challenge_id)
            IN  /\ Len(attempts) < MaxAttempts
                /\ attempts' = Append(attempts,
                                  Attempt(user_id, unit_id, challenge_id, query, is_correct))
                /\ IF ~is_correct
                   THEN /\ last' = SubmitAnswer(400, "Query is incorrect", token, user_id)
                        /\ UNCHANGED <<reqs, returned>>
                   ELSE IF existing # {}
                   THEN /\ last' = SubmitAnswer(200, "", token, user_id)
                        /\ returned' = progress[First(existing)]
                        /\ UNCHANGED reqs
                   ELSE /\ reqs' = [reqs EXCEPT ![s] = [Idle EXCEPT !.op = "submit",
                                        !.worker = w,
                                        !.tok = token, !.uid = user_id,
                                        !.unit_id = unit_id, !.challenge_id = challenge_id,
                                        !.hints_used = hints_used, !.query = query]]
                        /\ UNCHANGED <<last, returned>>
    /\ UNCHANGED <<now, users, refresh_tokens, password_reset_tokens,
                   held, resetUses, progress>>
    /\ UNCHANGED cache_vars

\* invalidate_cache(), invalidate_weekly_cache(), invalidate_analytics_cache()
\* called in process w: each clears the module-level cache of that process
invalidate_cache(w) == [cache EXCEPT ![w] = EmptyCache]
invalidate_weekly_cache(w) == [weekly_cache EXCEPT ![w] = EmptyCache]
invalidate_analytics_cache(w) == [analytics_cache EXCEPT ![w] = None]

\* a submission that leaves the leaderboard cache as it is
SubmitInsert_cache_kept(s) ==
    /\ reqs[s].op = "submit"
    /\ LET r == reqs[s]
           row == Progress(Len(progress) + 1, r.uid, r.unit_id, r.challenge_id,
                           get_challenge(r.unit_id, r.challenge_id).points,
                           r.hints_used, r.query)
       IN  /\ IF unique_user_challenge(row)
              THEN /\ progress' = Append(progress, row)
                   /\ returned' = row
                   /\ recorded' = [recorded EXCEPT ![r.worker] = row.id]
                   /\ last' = SubmitAnswer(200, "", r.tok, r.uid)
              ELSE /\ returned' = progress[First(ExistingProgress(r.uid, r.unit_id,
                                                                  r.challenge_id))]
                   /\ last' = SubmitAnswer(200, "", r.tok, r.uid)
                   /\ UNCHANGED <<progress, recorded>>
           /\ weekly_cache' = invalidate_weekly_cache(r.worker)
           /\ analytics_cache' = invalidate_analytics_cache(r.worker)
    /\ reqs' = [reqs EXCEPT ![s] = Idle]
    /\ UNCHANGED <<now, users, refresh_tokens, password_reset_tokens,
                   held, resetUses, attempts, board, cache>>

\* step 6: session.add(progress); session.commit(), the invalidation of the
\* caches, and on IntegrityError the rollback, the second lookup and the
\* invalidation of the caches
SubmitInsert(s) ==
    /\ reqs[s].op = "submit"
    /\ LET r == reqs[s]
           row == Progress(Len(progress) + 1, r.uid, r.unit_id, r.challenge_id,
                           get_challenge(r.unit_id, r.challenge_id).points,
                           r.hints_used, r.query)
       IN  /\ IF unique_user_challenge(row)
              THEN /\ progress' = Append(progress, row)
                   /\ returned' = row
                   /\ recorded' = [recorded EXCEPT ![r.worker] = row.id]
                   /\ last' = SubmitAnswer(200, "", r.tok, r.uid)
              ELSE /\ returned' = progress[First(ExistingProgress(r.uid, r.unit_id,
                                                                  r.challenge_id))]
                   /\ last' = SubmitAnswer(200, "", r.tok, r.uid)
                   /\ UNCHANGED <<progress, recorded>>
           /\ cache' = invalidate_cache(r.worker)
           /\ weekly_cache' = invalidate_weekly_cache(r.worker)
           /\ analytics_cache' = invalidate_analytics_cache(r.worker)
    /\ reqs' = [reqs EXCEPT ![s] = Idle]
    /\ UNCHANGED <<now, users, refresh_tokens, password_reset_tokens,
                   held, resetUses, attempts, board>>

(* ========================== GET /leaderboard ========================== *)
\* the rows of the first n Progress rows that belong to user id
RowsOf(id, n) == {i \in 1..n : progress[i].user_id = id}
RECURSIVE SumPoints(_)
SumPoints(S) ==
    IF S = {} THEN 0
    ELSE LET i == CHOOSE x \in S : TRUE IN progress[i].points_earned + SumPoints(S \ {i})
\* ORDER BY sum(points_earned) DESC, users.id
RECURSIVE Ranked(_, _)
Ranked(S, n) ==
    IF S = {} THEN <<>>
    ELSE LET top == CHOOSE a \in S : \A b \in S :
                        \/ SumPoints(RowsOf(a, n)) > SumPoints(RowsOf(b, n))
                        \/ SumPoints(RowsOf(a, n)) = SumPoints(RowsOf(b, n)) /\ a <= b
         IN  <<top>> \o Ranked(S \ {top}, n)
\* LeaderboardEntry; the student is told by the id of the user row (the
\* name column is not part of the user rows here)
LeaderboardEntry(rank, student, total_points, challenges_completed) ==
    [rank |-> rank, student |-> student, total_points |-> total_points,
     challenges_completed |-> challenges_completed]
\* _get_leaderboard_data over the first n Progress rows: users JOIN progress
\* WHERE role = 'student' GROUP BY user, ranked, LIMIT 100
LeaderboardData(n) ==
    LET students == {id \in UserIds : users[id].role = "student" /\ RowsOf(id, n) # {}}
        results == Ranked(students, n)
        limited == SubSeq(results, 1, IF Len(results) < LEADERBOARD_LIMIT
                                      THEN Len(results) ELSE LEADERBOARD_LIMIT)
    IN  [rank \in DOMAIN limited |->
            LeaderboardEntry(rank, limited[rank],
                             SumPoints(RowsOf(limited[rank], n)),
                             Cardinality(RowsOf(limited[rank], n)))]
LeaderboardResponse(entries) == [entries |-> entries]
_get_leaderboard_data == LeaderboardResponse(LeaderboardData(Len(progress)))

_is_cache_valid(w) ==
    IF cache[w].data = None \/ cache[w].timestamp = None THEN FALSE
    ELSE now - cache[w].timestamp[1] < Seconds(CACHE_TTL)

get_leaderboard(w) ==
    /\ Runnable(w)
    /\ IF _is_cache_valid(w)
       THEN /\ board' = [worker |-> w, entries |-> cache[w].data[1].entries,
                         rows |-> Len(progress)]
            /\ UNCHANGED cache
       ELSE LET data == _get_leaderboard_data IN
            /\ cache' = [cache EXCEPT ![w] = [data |-> Some(data), timestamp |-> Some(now)]]
            /\ board' = [worker |-> w, entries |-> data.entries, rows |-> Len(progress)]
    /\ UNCHANGED <<now, users, refresh_tokens, password_reset_tokens, held, reqs,
                   last, resetUses, progress, attempts, returned,
                   weekly_cache, analytics_cache, recorded>>

(* ========================== environment =============================== *)
Tick(t) ==
    /\ t > now
    /\ now' = t
    /\ UNCHANGED <<users, refresh_tokens, password_reset_tokens, held,
                   reqs, last, resetUses>>
    /\ UNCHANGED progress_vars

\* an administrator deletes a user row; the core never does, and nothing
\* cascades to the user's tokens
AdminDeleteUser(id) ==
    /\ id \in UserIds
    /\ users' = [i \in UserIds \ {id} |-> users[i]]
    /\ UNCHANGED <<now, refresh_tokens, password_reset_tokens, held,
                   reqs, last, resetUses>>
    /\ UNCHANGED progress_vars

(* ============================ specification =========================== *)
RefreshInputs == StoredRefresh \cup {Garbage, UnstoredRefreshJWT}
                 \cup {t \in {held} : HasToken(t)}
LogoutInputs == StoredRefresh \cup {Garbage}
ConfirmInputs == StoredReset \cup {Garbage}
\* a well-formed access token signed with another key
Forged == Token("forged", "ann@x.io", 1, "student", "", Timegm(RefreshLifetime + AccessLifetime), 0)
\* what a protected request may carry: nothing, a malformed string, a token
\* with a bad signature, a refresh token (no user_id claim), the access
\* token held
SubmitChallenges == {<<1, 1>>, <<1, 2>>, <<3, 9>>}
HintCounts == {0, 1}
BearerInputs == StoredRefresh \cup {NoToken, Garbage, Forged} \cup {t \in {held} : HasToken(t)}

\* the runs of a specification create at most n refresh-token rows
Sessions(n) == Len(refresh_tokens') <= n

\* the runs of a specification hold at most n user rows, and take up a
\* registration only when there is room for the rows of all those in flight
Accounts(n) ==
    /\ \A id \in DOMAIN users' : id <= n
    /\ (\E s \in Slots : reqs[s] = Idle /\ reqs'[s].op = "register") =>
           NextUserId + Cardinality(Registering(reqs')) - 1 <= n

\* the runs of a specification create at most n reset-token rows
Resets(n) == Len(password_reset_tokens') <= n

\* every operation
Next ==
    \/ \E s \in Slots, u \in RegisterInputs :
           RegisterCheck(s, u.email, u.password, u.role) /\ Accounts(MaxUsers)
    \/ \E s \in Slots : RegisterInsert(s) /\ Accounts(MaxUsers)
    \/ \E e \in Emails, p \in Passwords : login(e, p) /\ Sessions(MaxRefresh)
    \/ \E t \in BearerInputs : read_current_user(t)
    \/ \E t \in RefreshInputs : refresh_access_token(t)
    \/ \E s \in Slots, t \in LogoutInputs : LogoutLookup(s, t)
    \/ \E s \in Slots : LogoutCommit(s)
    \/ \E e \in Emails : request_password_reset(e) /\ Resets(MaxReset)
    \/ \E s \in Slots, t \in ConfirmInputs, p \in NewPasswords : ConfirmCheck(s, t, p)
    \/ \E s \in Slots : ConfirmCommit(s)
    \/ \E s \in Slots, w \in Workers, c \in SubmitChallenges, q \in Queries,
          h \in HintCounts : SubmitCheck(s, w, held, c[1], c[2], q, h)
    \/ \E s \in Slots : SubmitInsert(s)
    \/ \E w \in Workers : get_leaderboard(w)
    \/ \E t \in Instants : Tick(t)
    \/ \E id \in UserIds : AdminDeleteUser(id)

Spec == Init /\ [][Next]_vars

\* registration, login and the protected endpoints
NextAccount ==
    \/ \E s \in Slots, u \in RegisterInputs :
           RegisterCheck(s, u.email, u.password, u.role) /\ Accounts(MaxUsers)
    \/ \E s \in Slots : RegisterInsert(s) /\ Accounts(MaxUsers)
    \/ \E e \in Emails, p \in Passwords : login(e, p) /\ Sessions(MaxRefresh)
    \/ \E t \in BearerInputs : read_current_user(t)
    \/ \E t \in Instants : Tick(t)
    \/ \E id \in UserIds : AdminDeleteUser(id)

AccountSpec == Init /\ [][NextAccount]_vars

\* the session lifecycle: login, refresh, logout
NextSession ==
    \/ \E s \in Slots, u \in RegisterInputs :
           RegisterCheck(s, u.email, u.password, u.role) /\ Accounts(MaxUsers)
    \/ \E s \in Slots : RegisterInsert(s) /\ Accounts(MaxUsers)
    \/ \E e \in Emails, p \in Passwords : login(e, p) /\ Sessions(MaxRefresh)
    \/ \E t \in BearerInputs : read_current_user(t)
    \/ \E t \in RefreshInputs : refresh_access_token(t)
    \/ \E s \in Slots, t \in LogoutInputs : LogoutLookup(s, t)
    \/ \E s \in Slots : LogoutCommit(s)
    \/ \E t \in Instants : Tick(t)
    \/ \E id \in UserIds : AdminDeleteUser(id)

SessionSpec == Init /\ [][NextSession]_vars

\* the password-reset flow
NextReset ==
    \/ \E s \in Slots, u \in RegisterInputs :
           RegisterCheck(s, u.email, u.password, u.role) /\ Accounts(MaxUsers)
    \/ \E s \in Slots : RegisterInsert(s) /\ Accounts(MaxUsers)
    \/ \E e \in Emails, p \in Passwords : login(e, p) /\ Sessions(MaxRefresh)
    \/ \E e \in Emails : request_password_reset(e) /\ Resets(MaxReset)
    \/ \E s \in Slots, t \in ConfirmInputs, p \in NewPasswords : ConfirmCheck(s, t, p)
    \/ \E s \in Slots : ConfirmCommit(s)
    \/ \E t \in Instants : Tick(t)
    \/ \E id \in UserIds : AdminDeleteUser(id)

ResetSpec == Init /\ [][NextReset]_vars

\* the session lifecycle with password resets in between; the clock jumps
\* once, past the expiration of every token issued before
NextRevocation ==
    \/ \E s \in Slots, u \in RegisterInputs :
           RegisterCheck(s, u.email, u.password, u.role) /\ Accounts(MaxUsers)
    \/ \E s \in Slots : RegisterInsert(s) /\ Accounts(MaxUsers)
    \/ \E e \in Emails, p \in Passwords : login(e, p) /\ Sessions(MaxRefresh)
    \/ \E t \in RefreshInputs : refresh_access_token(t)
    \/ \E s \in Slots, t \in LogoutInputs : LogoutLookup(s, t)
    \/ \E s \in Slots : LogoutCommit(s)
    \/ \E e \in Emails : request_password_reset(e) /\ Resets(MaxReset)
    \/ \E s \in Slots, t \in ConfirmInputs, p \in NewPasswords : ConfirmCheck(s, t, p)
    \/ \E s \in Slots : ConfirmCommit(s)
    \/ \E t \in {RefreshLifetime + 1} : Tick(t)
    \/ \E id \in UserIds : AdminDeleteUser(id)

RevocationSpec == Init /\ [][NextRevocation]_vars

\* several sessions at a time: login, refresh and logout with room for one
\* refresh-token row more
NextMultiSession ==
    \/ \E s \in Slots, u \in RegisterInputs :
           RegisterCheck(s, u.email, u.password, u.role) /\ Accounts(MaxUsers)
    \/ \E s \in Slots : RegisterInsert(s) /\ Accounts(MaxUsers)
    \/ \E e \in Emails, p \in Passwords : login(e, p) /\ Sessions(MaxRefresh + 1)
    \/ \E t \in RefreshInputs : refresh_access_token(t)
    \/ \E s \in Slots, t \in LogoutInputs : LogoutLookup(s, t)
    \/ \E s \in Slots : LogoutCommit(s)

MultiSessionSpec == Init /\ [][NextMultiSession]_vars

\* challenge submissions of the user logged in
NextProgress ==
    \/ \E s \in Slots, u \in RegisterInputs :
           RegisterCheck(s, u.email, u.password, u.role) /\ Accounts(MaxUsers)
    \/ \E s \in Slots : RegisterInsert(s) /\ Accounts(MaxUsers)
    \/ \E e \in Emails, p \in Passwords : login(e, p) /\ Sessions(MaxRefresh)
    \/ \E s \in Slots, w \in Workers, c \in SubmitChallenges, q \in Queries,
          h \in HintCounts : SubmitCheck(s, w, held, c[1], c[2], q, h)
    \/ \E s \in Slots : SubmitInsert(s)

ProgressSpec == Init /\ [][NextProgress]_vars

\* several reset tokens at a time: requests and confirms with room for one
\* reset-token row more
NextMultiReset ==
    \/ \E s \in Slots, u \in RegisterInputs :
           RegisterCheck(s, u.email, u.password, u.role) /\ Accounts(MaxUsers)
    \/ \E s \in Slots : RegisterInsert(s) /\ Accounts(MaxUsers)
    \/ \E e \in Emails : request_password_reset(e) /\ Resets(MaxReset + 1)
    \/ \E s \in Slots, t \in ConfirmInputs, p \in NewPasswords : ConfirmCheck(s, t, p)
    \/ \E s \in Slots : ConfirmCommit(s)
    \/ \E t \in Instants : Tick(t)

MultiResetSpec == Init /\ [][NextMultiReset]_vars

\* several accounts at a time: registration, login and the password reset
\* with room for one user row more
NextMultiAccount ==
    \/ \E s \in Slots, u \in RegisterInputs :
           RegisterCheck(s, u.email, u.password, u.role) /\ Accounts(MaxUsers + 1)
    \/ \E s \in Slots : RegisterInsert(s) /\ Accounts(MaxUsers + 1)
    \/ \E e \in Emails, p \in Passwords : login(e, p) /\ Sessions(MaxRefresh)
    \/ \E e \in Emails : request_password_reset(e) /\ Resets(MaxReset)
    \/ \E s \in Slots, t \in ConfirmInputs, p \in NewPasswords : ConfirmCheck(s, t, p)
    \/ \E s \in Slots : ConfirmCommit(s)
    \/ \E id \in UserIds : AdminDeleteUser(id)

MultiAccountSpec == Init /\ [][NextMultiAccount]_vars

\* the leaderboard and the submissions that feed it; the clock reaches the
\* end of the life of a cache entry stored at the start
NextLeaderboard ==
    \/ \E s \in Slots, u \in RegisterInputs :
           RegisterCheck(s, u.email, u.password, u.role) /\ Accounts(MaxUsers)
    \/ \E s \in Slots : RegisterInsert(s) /\ Accounts(MaxUsers)
    \/ \E e \in Emails, p \in Passwords : login(e, p) /\ Sessions(MaxRefresh)
    \/ \E s \in Slots, w \in Workers, c \in DOMAIN CHALLENGES,
          q \in {SampleQuery, OtherQuery} : SubmitCheck(s, w, held, c[1], c[2], q, 0)
    \/ \E s \in Slots : SubmitInsert(s)
    \/ \E w \in Workers : get_leaderboard(w)
    \/ \E t \in {Seconds(CACHE_TTL) - 1, Seconds(CACHE_TTL)} : Tick(t)

LeaderboardSpec == Init /\ [][NextLeaderboard]_vars

(* ============================== properties ============================ *)
\* a request of kind op completes in this step
Completes(op) == last' # last /\ last'.op = op
\* a request of kind op carrying token t is taken up in this step: it either
\* passes its checks and waits to commit, or is answered by its checks
Begins(op, t) ==
    \/ \E s \in Slots : reqs[s] = Idle /\ reqs'[s].op = op /\ reqs'[s].tok = t
    \/ reqs' = reqs /\ Completes(op) /\ last'.tok = t

Revoked(token) == \E i \in RefreshIdx(token) : refresh_tokens[i].revoked
Used(token) == \E i \in ResetIdx(token) : password_reset_tokens[i].used
ResetExpired(token) == \E i \in ResetIdx(token) : now > password_reset_tokens[i].expires_at
StoreUnchanged == UNCHANGED <<users, refresh_tokens, password_reset_tokens>>

(* C1: once the stored revoked flag of a refresh token is true, every      *)
(* refresh made with that token from then on is refused.                   *)
C1_RevokedNeverRefreshes ==
    [][(Completes("refresh") /\ Revoked(last'.tok)) => last'.status = 401]_vars

C1_Witness ==
    /\ last.op = "refresh" /\ last.status = 401
    /\ last.detail = "Token has been revoked"
    /\ Revoked(last.tok)
    /\ \E i \in DOMAIN password_reset_tokens : password_reset_tokens[i].used

(* C2: a confirm that is made with a reset token whose used flag is already *)
(* true is refused and changes no password, expired or not.                *)
C2_UsedTokenRejected ==
    [][\A t \in ConfirmInputs :
          (Begins("confirm", t) /\ Used(t)) =>
              /\ reqs' = reqs
              /\ last'.status = 401
              /\ StoreUnchanged]_vars

C2_Witness ==
    /\ last.op = "confirm" /\ last.status = 401
    /\ Used(last.tok) /\ ~ResetExpired(last.tok)

(* C3: of concurrent registrations with one email at most one creates a    *)
(* user, and every registration that creates none is answered with the     *)
(* DuplicateEmail error, 400 "Email already registered".                   *)
C3_RaceLoserGetsDuplicateEmail ==
    /\ \A e \in Emails : Cardinality(UsersByEmail(e)) <= 1
    /\ (last.op = "register" /\ last.status # 201) =>
           (last.status = 400 /\ last.detail = "Email already registered")

(* C4: the password has been changed through reset token i if and only if  *)
(* token i is marked used.                                                 *)
C4_ResetAtomic ==
    \A i \in DOMAIN password_reset_tokens :
        (resetUses[i] > 0) <=> password_reset_tokens[i].used

C4_Witness ==
    \E i \in DOMAIN password_reset_tokens :
        /\ password_reset_tokens[i].used /\ resetUses[i] > 0
        /\ last.op = "confirm" /\ last.status = 200

(* C5: through one reset token the password is changed at most once,       *)
(* whatever the interleaving of the confirms that carry it.                *)
C5_SingleUse == \A i \in DOMAIN password_reset_tokens : resetUses[i] <= 1

(* C6: a login with the email and the password a user registered with      *)
(* succeeds and its access token authenticates that user; a login with     *)
(* that email and any other password is refused with "Incorrect email or   *)
(* password" and carries no token.                                         *)
C6_LoginIffRegisteredPassword ==
    [][(Completes("login") /\ UsersByEmail(last'.email) # {}) =>
          LET id == FirstUserByEmail(last'.email) IN
          IF last'.pw = users[id].password
          THEN /\ last'.status = 200
               /\ HasToken(last'.access) /\ held' = last'.access
               /\ (get_current_user(held))' = id
          ELSE /\ last'.status = 401
               /\ last'.detail = "Incorrect email or password"
               /\ ~HasToken(last'.access) /\ ~HasToken(last'.refresh)]_vars

(* C7: every refused login, for an unknown email as for a wrong password,  *)
(* carries the same status, message, header and body.                      *)
Body(r) == [status |-> r.status, detail |-> r.detail, hdr |-> r.hdr, uid |-> r.uid,
            access |-> r.access, refresh |-> r.refresh, reset |-> r.reset]

C7_LoginFailuresAlike ==
    (last.op = "login" /\ last.status # 200) =>
        Body(last) = [status |-> 401, detail |-> "Incorrect email or password",
                      hdr |-> "Bearer", uid |-> 0, access |-> NoToken,
                      refresh |-> NoToken, reset |-> NoToken]

C7_Witness ==
    /\ last.op = "login" /\ last.status # 200
    /\ UsersByEmail(last.email) # {}
    /\ \E e \in Emails : UsersByEmail(e) = {}

(* C8: a logout whose token is stored and not revoked answers 200          *)
(* "Successfully logged out" and leaves the token revoked.                 *)
C8_LogoutSucceeds ==
    [][\A s \in Slots :
          (reqs[s].op = "logout" /\ reqs'[s] = Idle) =>
              /\ last'.op = "logout" /\ last'.tok = reqs[s].tok
              /\ last'.status = 200 /\ last'.detail = "Successfully logged out"
              /\ Revoked(reqs[s].tok)']_vars

(* C9: a logout with a token that is not stored, or is already revoked, is *)
(* refused with 401 and leaves every stored record as it was.              *)
C9_LogoutRefused ==
    [][\A t \in LogoutInputs :
          (Begins("logout", t) /\ (RefreshIdx(t) = {} \/ Revoked(t))) =>
              /\ reqs' = reqs
              /\ last'.status = 401 /\ last'.detail = "Invalid refresh token"
              /\ StoreUnchanged]_vars

C9_Witness ==
    /\ last.op = "logout" /\ last.status = 401
    /\ Revoked(last.tok)

(* C10, as claimed: a refused refresh carries a message of its own only    *)
(* when the token is revoked; for every other cause the message is the     *)
(* generic one.                                                            *)
RefreshExpired(token) == \E i \in RefreshIdx(token) : now > refresh_tokens[i].expires_at
RefreshUserMissing(token) ==
    \E i \in RefreshIdx(token) : refresh_tokens[i].user_id \notin UserIds

C10_OnlyRevokedDistinguished ==
    [][(Completes("refresh") /\ last'.status # 200) =>
          (last'.detail # "Invalid refresh token" =>
               (last'.detail = "Token has been revoked" /\ Revoked(last'.tok)))]_vars

(* C10, amended: a refused refresh says "Token has been revoked" only for  *)
(* a revoked token and "Token has expired" only for an unrevoked token     *)
(* whose stored expiration has passed; a token that is not stored, and a   *)
(* live token whose user is gone, get the generic "Invalid refresh token". *)
C10_RevokedAndExpiredDistinguished ==
    [][(Completes("refresh") /\ last'.status # 200) =>
          LET t == last'.tok IN
          /\ last'.status = 401
          /\ last'.detail \in {"Invalid refresh token", "Token has been revoked",
                               "Token has expired"}
          /\ last'.detail = "Token has been revoked" => Revoked(t)
          /\ last'.detail = "Token has expired" => (RefreshExpired(t) /\ ~Revoked(t))
          /\ RefreshIdx(t) = {} => last'.detail = "Invalid refresh token"
          /\ (RefreshUserMissing(t) /\ ~Revoked(t) /\ ~RefreshExpired(t)) =>
                 last'.detail = "Invalid refresh token"]_vars

C10_Witness ==
    /\ last.op = "refresh" /\ last.status = 401
    /\ last.detail = "Token has expired"
    /\ ~Revoked(last.tok)

(* C11: a successful refresh leaves every stored record as it was, so the  *)
(* token it was given passes verification again right after; and a refresh *)
(* with a stored token that is neither revoked nor past its expiration,    *)
(* and whose user exists, succeeds however often the token was used.       *)
C11_RefreshDoesNotRotate ==
    [][Completes("refresh") =>
          /\ last'.status = 200 =>
                 /\ StoreUnchanged
                 /\ (verify_refresh_token(last.tok).ok)'
          /\ ( /\ RefreshIdx(last'.tok) # {}
               /\ ~Revoked(last'.tok) /\ ~RefreshExpired(last'.tok)
               /\ ~RefreshUserMissing(last'.tok) ) => last'.status = 200]_vars

C11_Witness ==
    /\ last.op = "refresh" /\ last.status = 200
    /\ now > 0
    /\ \E i \in RefreshIdx(last.tok) :
           refresh_tokens[i].expires_at = RefreshLifetime /\ ~refresh_tokens[i].revoked

(* C12: a logout leaves the access token in the client's hands as          *)
(* acceptable as it was; and an access token that has not expired and      *)
(* whose user exists is accepted, whatever the state of the refresh tokens.*)
IsAccessToken(t) == t.kind = "jwt" /\ t.sub # "" /\ t.user_id # 0
C12_AccessTokenSurvivesLogout ==
    [][/\ \A s \in Slots :
             (reqs[s].op = "logout" /\ reqs'[s] = Idle) =>
                 (get_current_user(held))' = get_current_user(held)
       /\ ( /\ Completes("me") /\ IsAccessToken(last'.tok)
            /\ ~(last'.tok.exp < Timegm(now))
            /\ last'.tok.user_id \in UserIds ) =>
               (last'.status = 200 /\ last'.uid = last'.tok.user_id)]_vars

C12_Witness ==
    /\ last.op = "me" /\ last.status = 200
    /\ \E i \in DOMAIN refresh_tokens :
           refresh_tokens[i].user_id = last.uid /\ refresh_tokens[i].revoked
    /\ \A i \in DOMAIN refresh_tokens :
           refresh_tokens[i].user_id = last.uid => refresh_tokens[i].revoked

(* C13, original statement: every refused protected request carries the    *)
(* same status and the same message.                                       *)
C13_OneUnauthorizedOutcome ==
    (last.op = "me" /\ last.status # 200) =>
        /\ last.status = 401 /\ last.hdr = "Bearer"
        /\ last.detail = "Could not validate credentials"

(* C13, amended: every refused protected request carries status 401 and    *)
(* the Bearer challenge; every token that is presented and refused gets    *)
(* the same message, and a request without a token gets the message of the *)
(* OAuth2 scheme.                                                          *)
C13_UnauthorizedByPresence ==
    (last.op = "me" /\ last.status # 200) =>
        /\ last.status = 401 /\ last.hdr = "Bearer"
        /\ last.detail = IF HasToken(last.tok) THEN "Could not validate credentials"
                         ELSE "Not authenticated"

C13_Witness ==
    /\ last.op = "me" /\ last.status = 401
    /\ IsAccessToken(last.tok) /\ last.tok.exp < Timegm(now)
    /\ last.tok.user_id \in UserIds

(* C14: a reset request for an email nobody registered answers 200 with    *)
(* an empty token field and leaves users, refresh tokens and reset tokens  *)
(* as they were.                                                           *)
C14_UnknownEmailResetIsNoOp ==
    [][(Completes("reset request") /\ UsersByEmail(last'.email) = {}) =>
          /\ last'.status = 200 /\ last'.detail = RESET_REQUEST_MESSAGE
          /\ ~HasToken(last'.reset)
          /\ StoreUnchanged]_vars

C14_Witness ==
    /\ last.op = "reset request" /\ UsersByEmail(last.email) = {}
    /\ UserIds # {} /\ password_reset_tokens = <<>>

ResetUserMissing(token) ==
    \E i \in ResetIdx(token) : password_reset_tokens[i].user_id \notin UserIds
C16_ConfirmFailuresAlike ==
    [][\A t \in ConfirmInputs :
          ( /\ Begins("confirm", t)
            /\ \/ ResetIdx(t) = {} \/ Used(t)
               \/ ResetExpired(t) \/ ResetUserMissing(t) ) =>
              /\ reqs' = reqs
              /\ Body(last') = [status |-> 401,
                                detail |-> "Invalid or expired reset token",
                                hdr |-> "", uid |-> 0, access |-> NoToken,
                                refresh |-> NoToken, reset |-> NoToken]]_vars

C16_Witness ==
    /\ last.op = "confirm" /\ last.status = 401
    /\ ResetExpired(last.tok) /\ ~Used(last.tok) /\ ~ResetUserMissing(last.tok)

(* C17: once a reset to a password other than the old one is confirmed, a  *)
(* login with the new password succeeds and a login with the old password  *)
(* is refused, until the next confirmed reset.                             *)
C17_OldPasswordOutNewPasswordIn ==
    [][(Completes("login") /\ UsersByEmail(last'.email) # {}) =>
          LET u == users[FirstUserByEmail(last'.email)] IN
          (u.old_password # <<>> /\ u.old_password # u.password) =>
              /\ last'.pw = u.password => last'.status = 200
              /\ last'.pw = u.old_password => last'.status = 401]_vars

(* C18: a user holds several refresh tokens at a time; a logout sets the   *)
(* revoked flag of the record of its token and of no other, and every      *)
(* other token that passed verification before still passes it after.      *)
C18_LogoutRevokesOneToken ==
    [][\A s \in Slots :
          (reqs[s].op = "logout" /\ reqs'[s] = Idle) =>
              /\ refresh_tokens' =
                     [refresh_tokens EXCEPT ![reqs[s].idx].revoked = TRUE]
              /\ refresh_tokens[reqs[s].idx].token = reqs[s].tok
              /\ \A i \in DOMAIN refresh_tokens :
                     (i # reqs[s].idx /\ verify_refresh_token(refresh_tokens[i].token).ok)
                         => (verify_refresh_token(refresh_tokens[i].token).ok)']_vars

C18_Witness ==
    /\ last.op = "refresh" /\ last.status = 200
    /\ \E i \in DOMAIN refresh_tokens :
           /\ refresh_tokens[i].user_id = last.uid
           /\ refresh_tokens[i].token # last.tok
           /\ refresh_tokens[i].revoked

(* C20: refresh fails at the first check that fails, in this order: the    *)
(* JWT (signature, exp, type = refresh), the stored record, its revoked    *)
(* flag, its expiration, its user.  A stored token that passes the JWT     *)
(* check and is both revoked and past its stored expiration is refused as  *)
(* revoked; a token that is not stored is refused as invalid.              *)
Refused(r, detail) == r.status = 401 /\ r.detail = detail
Refused400(r) == r.status = 400 /\ r.detail = "Email already registered"
ProgressOf(user_id, c) == ExistingProgress(user_id, c[1], c[2])
C19_OneProgressPerChallenge ==
    /\ \A id \in UserIds, c \in DOMAIN CHALLENGES :
           Cardinality(ProgressOf(id, c)) <= 1
    /\ (last.op = "submit" /\ last.status = 200) =>
           /\ returned.id \in DOMAIN progress
           /\ returned = progress[First(ProgressOf(returned.user_id,
                                   <<returned.unit_id, returned.challenge_id>>))]

(* C21: a successful refresh answers with an access token whose sub,       *)
(* user_id and role are those of the user row that the stored record of    *)
(* the refresh token names, and that user is the one who logged in when    *)
(* the token was issued.                                                   *)
C21_RefreshKeepsIdentity ==
    [][(Completes("refresh") /\ last'.status = 200) =>
          LET db_token == refresh_tokens[First(RefreshIdx(last'.tok))]
              access == last'.access
          IN  /\ access.user_id = db_token.user_id
              /\ access.sub = users[db_token.user_id].email
              /\ access.role = users[db_token.user_id].role
              /\ access.sub = db_token.issued_to]_vars

(* C22: a refresh made with an access token is refused, and a protected    *)
(* request that carries a refresh token as its bearer token is refused.    *)
C22_TokenKindsApart ==
    [][/\ (Completes("refresh") /\ last'.tok.type # "refresh") =>
              Refused(last', "Invalid refresh token")
       /\ (Completes("me") /\ last'.tok.type = "refresh") =>
              Refused(last', "Could not validate credentials")]_vars

C22_Witness ==
    /\ last.op = "me" /\ last.status = 401
    /\ last.tok \in StoredRefresh
    /\ verify_refresh_token(last.tok).ok

(* C23, original statement: a refresh made at a time at or after the       *)
(* stored expiration of its token is refused.                              *)
C23_RefusedFromExpiration ==
    [][(Completes("refresh") /\ RefreshIdx(last'.tok) # {}) =>
          (now >= refresh_tokens[First(RefreshIdx(last'.tok))].expires_at =>
               last'.status = 401)]_vars

(* C23, amended: a refresh made at a time after the stored expiration of   *)
(* its token is refused, by the comparison made in the request itself;     *)
(* the records are never touched by the passing of time.                   *)
C23_RefusedAfterExpiration ==
    [][/\ (Completes("refresh") /\ RefreshIdx(last'.tok) # {}) =>
              (now > refresh_tokens[First(RefreshIdx(last'.tok))].expires_at =>
                   last'.status = 401)
       /\ now' # now => UNCHANGED <<users, refresh_tokens, password_reset_tokens>>]_vars

C23_Witness ==
    /\ last.op = "refresh" /\ last.status = 401
    /\ ~JWTError(last.tok)
    /\ \E i \in RefreshIdx(last.tok) :
           /\ now > refresh_tokens[i].expires_at
           /\ ~refresh_tokens[i].revoked
           /\ refresh_tokens[i].user_id \in UserIds

(* C25: a refresh-token record is created with revoked = false, no record  *)
(* is ever removed, and no step takes the flag of a record from true back  *)
(* to false.                                                               *)
C25_RevokedIsMonotonic ==
    [][/\ \A i \in DOMAIN refresh_tokens :
              /\ i \in DOMAIN refresh_tokens'
              /\ refresh_tokens[i].revoked => refresh_tokens'[i].revoked
       /\ \A i \in DOMAIN refresh_tokens' \ DOMAIN refresh_tokens :
              ~refresh_tokens'[i].revoked]_vars

C25_Witness ==
    /\ last.op = "confirm" /\ last.status = 200
    /\ \E i \in DOMAIN refresh_tokens :
           refresh_tokens[i].revoked /\ refresh_tokens[i].user_id = last.uid

(* C28: of the logouts made with one refresh token, only the first to      *)
(* commit is not refused: a logout that completes when the record of its   *)
(* token is already revoked is refused with "Invalid refresh token" and    *)
(* writes nothing.                                                         *)
C28_OneLogoutPerToken ==
    [][\A s \in Slots :
          (reqs[s].op = "logout" /\ reqs'[s] = Idle /\ Revoked(reqs[s].tok)) =>
              /\ Refused(last', "Invalid refresh token")
              /\ refresh_tokens' = refresh_tokens]_vars

(* C29: a confirmed reset writes the password hash of the token's user and *)
(* the used flag of the token and nothing else; the refresh-token records  *)
(* are as they were, and every refresh token that passed verification      *)
(* before the reset passes it after.                                       *)
C29_ResetKeepsSessions ==
    [][\A s \in Slots :
          (reqs[s].op = "confirm" /\ reqs'[s] = Idle /\ last'.status = 200) =>
              LET r == reqs[s] IN
              /\ refresh_tokens' = refresh_tokens
              /\ password_reset_tokens' =
                     [password_reset_tokens EXCEPT ![r.idx].used = TRUE]
              /\ DOMAIN users' = DOMAIN users
              /\ \A id \in DOMAIN users :
                     /\ users'[id].email = users[id].email
                     /\ users'[id].role = users[id].role
                     /\ users'[id].last_login = users[id].last_login
                     /\ id # r.uid => users'[id] = users[id]
              /\ users'[r.uid].password_hash = hash_password(r.pw)
              /\ \A i \in DOMAIN refresh_tokens :
                     verify_refresh_token(refresh_tokens[i].token).ok =>
                         (verify_refresh_token(refresh_tokens[i].token).ok)']_vars

C29_Witness ==
    /\ last.op = "confirm" /\ last.status = 200
    /\ \E i \in DOMAIN refresh_tokens :
           /\ refresh_tokens[i].user_id = last.uid
           /\ verify_refresh_token(refresh_tokens[i].token).ok

(* C30: a confirm that is refused at one of the checks (token not found,   *)
(* already used, expired, user gone) writes nothing: users, reset tokens   *)
(* and refresh tokens are as before the request.                           *)
C30_RefusedConfirmWritesNothing ==
    [][(Completes("confirm") /\ last'.status = 401) =>
          /\ StoreUnchanged
          /\ resetUses' = resetUses]_vars

C30_Witness ==
    /\ last.op = "confirm" /\ last.status = 401
    /\ ResetExpired(last.tok) /\ ~Used(last.tok)
    /\ \A id \in UserIds : users[id].old_password = <<>>
    /\ UserIds # {}

(* C24: every reset request for a registered email adds a record with a    *)
(* token of its own and used = false, whatever records the user already    *)
(* has; a confirmed reset sets the used flag of the record of its token    *)
(* and of no other, and every other token that was redeemable before is    *)
(* redeemable after.                                                       *)
C24_ResetTokensIndependent ==
    [][/\ (Completes("reset request") /\ UsersByEmail(last'.email) # {}) =>
              /\ Len(password_reset_tokens') = Len(password_reset_tokens) + 1
              /\ SubSeq(password_reset_tokens', 1, Len(password_reset_tokens))
                     = password_reset_tokens
              /\ LET db_token == password_reset_tokens'[Len(password_reset_tokens')] IN
                 /\ ~db_token.used
                 /\ db_token.user_id = FirstUserByEmail(last'.email)
                 /\ db_token.token \notin StoredReset
                 /\ last'.reset = db_token.token
       /\ \A s \in Slots :
              (reqs[s].op = "confirm" /\ reqs'[s] = Idle /\ last'.status = 200) =>
                  /\ password_reset_tokens' =
                         [password_reset_tokens EXCEPT ![reqs[s].idx].used = TRUE]
                  /\ \A i \in DOMAIN password_reset_tokens :
                         ( /\ i # reqs[s].idx
                           /\ ResetTokenValid(password_reset_tokens[i].token) ) =>
                             (ResetTokenValid(password_reset_tokens[i].token))']_vars

C24_Witness ==
    /\ last.op = "confirm" /\ last.status = 200
    /\ \E i, j \in DOMAIN password_reset_tokens :
           /\ password_reset_tokens[i].token = last.tok
           /\ password_reset_tokens[i].used
           /\ password_reset_tokens[j].user_id = password_reset_tokens[i].user_id
           /\ ~password_reset_tokens[j].used
           /\ ResetTokenValid(password_reset_tokens[j].token)

(* C26: no two user rows have the same email; no step changes the email of *)
(* a user row; a registration for an email that a user row has creates no  *)
(* row, and the duplicate check answers it 400 "Email already registered". *)
C26_EmailsUnique ==
    [][/\ \A a, b \in DOMAIN users' : users'[a].email = users'[b].email => a = b
       /\ \A id \in DOMAIN users \cap DOMAIN users' : users'[id].email = users[id].email
       /\ (Completes("register") /\ UsersByEmail(last'.email) # {}) =>
              /\ users' = users
              /\ reqs' = reqs => Refused400(last')]_vars

C26_Witness ==
    /\ last.op = "register" /\ Refused400(last)
    /\ \E a, b \in UserIds : a # b /\ users[a].email = last.email

====
